---- MODULE Spec2Model ----
(***************************************************************************)
(* EchoWeaver: the App component of src/App.tsx as a state machine.        *)
(* State is the five useState cells of App, the environment's API key,     *)
(* and the handleWeaveFragment call chains that are suspended at one of    *)
(* their two awaits.  Text is a sequence of characters.                    *)
(***************************************************************************)
EXTENDS Integers, Sequences, FiniteSets, TLC

\* ---- bounds ----
MaxChains == 3

\* ---- values ----
Null == [tag |-> "null"]
Str(s) == [tag |-> "str", v |-> s]

Whitespace == {" ", "\n"}
Sep == <<"\n", "\n">>
DataUrlPrefix == <<"data:image/png;base64,">>

ConfigErrorMsg == "API Key not configured. Please set the API_KEY environment variable."
ImageFallbackMsg == "Image generation failed. The dream's vision flickers."
NarrativeFallbackMsg == "Narrative weaving failed. The dream's thread is lost."

\* process.env.API_KEY: undefined, empty, blank, or a key
ApiKeys ==
  { [defined |-> FALSE, value |-> <<>>],
    [defined |-> TRUE,  value |-> <<>>],
    [defined |-> TRUE,  value |-> <<" ">>],
    [defined |-> TRUE,  value |-> <<"k">>] }

\* fragments the input control may hand to the handler
Fragments == { <<>>, <<" ", "\n">>, <<" ", "a", "\n">> }

\* texts weaveNarrative may resolve to
Segments == { <<>>, <<"x">> }

\* base64 payloads generateDreamImage may resolve to
Images == { <<"p">>, <<"q">> }

\* values a service call may reject with: an Error with a message, or a non-Error
Thrown ==
  { [isError |-> TRUE,  message |-> "quota exceeded"],
    [isError |-> TRUE,  message |-> ""],
    [isError |-> FALSE, message |-> "raw"] }

\* ---- String.prototype.trim ----
RECURSIVE TrimStart(_)
TrimStart(s) ==
  IF s # <<>> /\ Head(s) \in Whitespace THEN TrimStart(Tail(s)) ELSE s

RECURSIVE TrimEnd(_)
TrimEnd(s) ==
  IF s # <<>> /\ s[Len(s)] \in Whitespace
  THEN TrimEnd(SubSeq(s, 1, Len(s) - 1)) ELSE s

Trim(s) == TrimEnd(TrimStart(s))

VARIABLES
  apiKey,       \* process.env.API_KEY
  mounted,      \* the mount effect has run
  dreamState,   \* [narrative, imageUrl]
  isLoading,
  error,
  apiKeyOk,
  showWelcome,
  chains        \* every handleWeaveFragment call that passed the guard, in order

vars == <<apiKey, mounted, dreamState, isLoading, error, apiKeyOk, showWelcome, chains>>

\* ---- the mount effect ----
KeyConfiguredNoTrim(k) == k.defined /\ k.value # <<>>

KeyConfigured(k) == k.defined /\ k.value # <<>> /\ Trim(k.value) # <<>>

\* ---- the view ----
ConfigScreen == ~apiKeyOk /\ ~isLoading
SpinnerShownOnDreamOnly == ~ConfigScreen /\ isLoading /\ dreamState.narrative # <<>>

SpinnerShown == ~ConfigScreen /\ isLoading
ErrorShown == ~ConfigScreen /\ error # Null /\ error.v # "" /\ ~isLoading
WelcomeShown == ~ConfigScreen /\ ~isLoading /\ (showWelcome \/ dreamState.narrative = <<>>)
DreamShown == ~ConfigScreen /\ ~showWelcome /\ dreamState.narrative # <<>>
InputCount == (IF WelcomeShown THEN 1 ELSE 0) + (IF DreamShown THEN 1 ELSE 0)

\* The input control raises onSubmitFragment with whatever text it holds whenever
\* it is mounted; it takes no decision of its own on its isLoading prop.
DreamInputEmits(loadingProp, fragment) == fragment \in Fragments

\* ---- handleWeaveFragment ----
Rejected(fragment) == ~apiKeyOk \/ Trim(fragment) = <<>>

NewFullNarrativeOneNewline(captured, narrativeResponse) ==
  IF captured = <<>> THEN narrativeResponse
  ELSE captured \o <<"\n">> \o narrativeResponse

NewFullNarrativeNoBranch(captured, narrativeResponse) ==
  captured \o Sep \o narrativeResponse

NewFullNarrative(captured, narrativeResponse) ==
  IF captured = <<>> THEN narrativeResponse
  ELSE captured \o Sep \o narrativeResponse

ImagePromptWholeNarrative(captured, narrativeResponse) ==
  IF captured = <<>> THEN narrativeResponse
  ELSE captured \o Sep \o narrativeResponse

ImagePromptSegment(captured, narrativeResponse) == narrativeResponse

ErrorMessage(thrown, fallback) ==
  IF thrown.isError THEN thrown.message ELSE fallback

\* chains[i] records, for call i: pc, the await it is suspended at; narrative
\* and fragment, the arguments it captured; imageUrl0, the image at submission;
\* segment and prompt, what weaveNarrative resolved to and what
\* generateDreamImage was called with; outcome; cleared, how often it ran
\* setIsLoading(false); commitSeq and imageSeq, its rank among the narrative
\* commits and among the image commits.
InFlight == { i \in 1..Len(chains) : chains[i].pc # "done" }

Init ==
  /\ apiKey \in ApiKeys
  /\ mounted = FALSE
  /\ dreamState = [narrative |-> <<>>, imageUrl |-> Null]
  /\ isLoading = FALSE
  /\ error = Null
  /\ apiKeyOk = FALSE
  /\ showWelcome = TRUE
  /\ chains = <<>>

CheckApiKey ==
  /\ ~mounted
  /\ mounted' = TRUE
  /\ IF KeyConfigured(apiKey)
     THEN apiKeyOk' = TRUE /\ error' = error
     ELSE apiKeyOk' = FALSE /\ error' = Str(ConfigErrorMsg)
  /\ UNCHANGED <<apiKey, dreamState, isLoading, showWelcome, chains>>

SubmitFragment(fragment) ==
  /\ mounted
  /\ InputCount > 0
  /\ DreamInputEmits(isLoading, fragment)
  /\ IF Rejected(fragment)
     THEN UNCHANGED <<isLoading, error, chains>>
     ELSE /\ Len(chains) < MaxChains
          /\ isLoading' = TRUE
          /\ error' = Null
          /\ chains' = Append(chains,
               [ pc |-> "narrative",
                 narrative |-> dreamState.narrative,
                 fragment |-> fragment,
                 imageUrl0 |-> dreamState.imageUrl,
                 segment |-> Null,
                 prompt |-> Null,
                 outcome |-> "pending",
                 cleared |-> 0,
                 commitSeq |-> 0,
                 imageSeq |-> 0 ])
  /\ UNCHANGED <<apiKey, mounted, dreamState, apiKeyOk, showWelcome>>

NarrativeResolvesKeepsWelcome(i, narrativeResponse) ==
  /\ i \in 1..Len(chains)
  /\ chains[i].pc = "narrative"
  /\ dreamState' = [dreamState EXCEPT
       !.narrative = NewFullNarrative(chains[i].narrative, narrativeResponse)]
  /\ chains' = [chains EXCEPT
       ![i].pc = "image",
       ![i].segment = Str(narrativeResponse),
       ![i].prompt = Str(ImagePromptSegment(chains[i].narrative, narrativeResponse)),
       ![i].commitSeq = Cardinality({j \in 1..Len(chains) : chains[j].segment # Null}) + 1]
  /\ UNCHANGED <<apiKey, mounted, isLoading, error, apiKeyOk, showWelcome>>

NarrativeResolves(i, narrativeResponse) ==
  /\ i \in 1..Len(chains)
  /\ chains[i].pc = "narrative"
  /\ dreamState' = [dreamState EXCEPT
       !.narrative = NewFullNarrative(chains[i].narrative, narrativeResponse)]
  /\ showWelcome' = FALSE
  /\ chains' = [chains EXCEPT
       ![i].pc = "image",
       ![i].segment = Str(narrativeResponse),
       ![i].prompt = Str(ImagePromptSegment(chains[i].narrative, narrativeResponse)),
       ![i].commitSeq = Cardinality({j \in 1..Len(chains) : chains[j].segment # Null}) + 1]
  /\ UNCHANGED <<apiKey, mounted, isLoading, error, apiKeyOk>>

NarrativeRejects(i, thrown) ==
  /\ i \in 1..Len(chains)
  /\ chains[i].pc = "narrative"
  /\ error' = Str(ErrorMessage(thrown, NarrativeFallbackMsg))
  /\ isLoading' = FALSE
  /\ chains' = [chains EXCEPT
       ![i].pc = "done", ![i].outcome = "narrativeFailed",
       ![i].cleared = chains[i].cleared + 1]
  /\ UNCHANGED <<apiKey, mounted, dreamState, apiKeyOk, showWelcome>>

ImageResolves(i, base64Image) ==
  /\ i \in 1..Len(chains)
  /\ chains[i].pc = "image"
  /\ dreamState' = [dreamState EXCEPT !.imageUrl = Str(DataUrlPrefix \o base64Image)]
  /\ isLoading' = FALSE
  /\ chains' = [chains EXCEPT
       ![i].pc = "done", ![i].outcome = "ok",
       ![i].cleared = chains[i].cleared + 1,
       ![i].imageSeq = Cardinality({j \in 1..Len(chains) : chains[j].outcome = "ok"}) + 1]
  /\ UNCHANGED <<apiKey, mounted, error, apiKeyOk, showWelcome>>

ImageRejectsNoFinally(i, thrown) ==
  /\ i \in 1..Len(chains)
  /\ chains[i].pc = "image"
  /\ error' = Str(ErrorMessage(thrown, ImageFallbackMsg))
  /\ chains' = [chains EXCEPT ![i].pc = "done", ![i].outcome = "imageFailed"]
  /\ UNCHANGED <<apiKey, mounted, dreamState, isLoading, apiKeyOk, showWelcome>>

ImageRejects(i, thrown) ==
  /\ i \in 1..Len(chains)
  /\ chains[i].pc = "image"
  /\ error' = Str(ErrorMessage(thrown, ImageFallbackMsg))
  /\ isLoading' = FALSE
  /\ chains' = [chains EXCEPT
       ![i].pc = "done", ![i].outcome = "imageFailed",
       ![i].cleared = chains[i].cleared + 1]
  /\ UNCHANGED <<apiKey, mounted, dreamState, apiKeyOk, showWelcome>>

Next ==
  \/ CheckApiKey
  \/ \E fragment \in Fragments : SubmitFragment(fragment)
  \/ \E i \in 1..MaxChains, s \in Segments : NarrativeResolves(i, s)
  \/ \E i \in 1..MaxChains, t \in Thrown : NarrativeRejects(i, t)
  \/ \E i \in 1..MaxChains, b \in Images : ImageResolves(i, b)
  \/ \E i \in 1..MaxChains, t \in Thrown : ImageRejects(i, t)

Spec == Init /\ [][Next]_vars

\* every pending service call eventually resolves or rejects
ChainSettles(i) ==
  \/ \E s \in Segments : NarrativeResolves(i, s)
  \/ \E t \in Thrown : NarrativeRejects(i, t)
  \/ \E b \in Images : ImageResolves(i, b)
  \/ \E t \in Thrown : ImageRejects(i, t)

FairSpec == Spec /\ \A i \in 1..MaxChains : WF_vars(ChainSettles(i))

\* ---- helpers for the properties ----
Blank(s) == \A j \in 1..Len(s) : s[j] \in Whitespace
Contains(t, s) == \E j \in 0..(Len(t) - Len(s)) : SubSeq(t, j + 1, j + Len(s)) = s
\* the step in which chain i moves from one position to another
Moves(i, from, to) ==
  /\ i <= Len(chains) /\ chains[i].pc = from
  /\ i <= Len(chains') /\ chains'[i].pc = to
\* the step in which chain i settles with the given outcome
SettlesWith(i, o) ==
  /\ i <= Len(chains) /\ chains[i].pc # "done"
  /\ chains'[i].pc = "done" /\ chains'[i].outcome = o

\* C1: a handler call with a blank fragment, or made while isLoading, or made
\* while apiKeyOk is false, changes none of narrative, imageUrl, error,
\* isLoading, and starts no service call: no step taken in such a state starts
\* a chain, and a step that starts a chain with a blank fragment does not exist.
C1_NoOpGuard ==
  [][ (isLoading \/ ~apiKeyOk
        \/ (Len(chains') > Len(chains) /\ Blank(chains'[Len(chains')].fragment)))
      => (Len(chains') = Len(chains)) ]_vars

\* C2: at most one call chain is suspended at a service call.
C2_AtMostOneInFlight == Cardinality(InFlight) <= 1

\* C3: every step leaves narrative alone or extends it at the end by the
\* separator and one segment (from empty: by one segment).
C3_NarrativeOnlyGrows ==
  [][ \/ dreamState'.narrative = dreamState.narrative
      \/ /\ dreamState.narrative = <<>>
         /\ dreamState'.narrative \in Segments
      \/ /\ dreamState.narrative # <<>>
         /\ \E s \in Segments :
              dreamState'.narrative = dreamState.narrative \o <<"\n", "\n">> \o s ]_vars

\* C4: when the narrative call of a chain submitted on a non-empty narrative
\* resolves with a segment, the committed narrative is that narrative, two
\* newlines, then the segment.
C4_AppendLaw ==
  [][ \A i \in 1..MaxChains :
        (Moves(i, "narrative", "image") /\ chains[i].narrative # <<>>)
          => dreamState'.narrative =
               chains[i].narrative \o <<"\n", "\n">> \o chains'[i].segment.v ]_vars

C4_Witness ==
  \E i \in 1..Len(chains) :
    /\ chains[i].pc = "image"
    /\ chains[i].narrative = <<"x">>
    /\ chains[i].segment = Str(<<"x">>)
    /\ dreamState.narrative = <<"x", "\n", "\n", "x">>

\* C5: when the narrative call of a chain submitted on the empty narrative
\* resolves with a segment, the committed narrative is exactly the segment and
\* the image service is called with that segment.
C5_FirstFragmentLaw ==
  [][ \A i \in 1..MaxChains :
        (Moves(i, "narrative", "image") /\ chains[i].narrative = <<>>)
          => /\ dreamState'.narrative = chains'[i].segment.v
             /\ chains'[i].prompt = chains'[i].segment ]_vars

C5_Witness ==
  \E i \in 1..Len(chains) :
    /\ chains[i].pc = "image"
    /\ chains[i].narrative = <<>>
    /\ chains[i].segment = Str(<<"x">>)
    /\ chains[i].prompt = Str(<<"x">>)
    /\ dreamState.narrative = <<"x">>

\* C6: in the state in which a chain settles with its narrative call failed,
\* narrative and imageUrl are what they were when the chain was submitted.
C6_FullFailureNoOp ==
  [][ \A i \in 1..MaxChains :
        SettlesWith(i, "narrativeFailed")
          => /\ dreamState'.narrative = chains[i].narrative
             /\ dreamState'.imageUrl = chains[i].imageUrl0 ]_vars

\* C7: in the state in which a chain settles with narrative success and image
\* failure, narrative contains the chain's segment, imageUrl is what it was at
\* submission, error is set and isLoading is false.
C7_PartialFailurePersists ==
  [][ \A i \in 1..MaxChains :
        SettlesWith(i, "imageFailed")
          => /\ Contains(dreamState'.narrative, chains[i].segment.v)
             /\ dreamState'.imageUrl = chains[i].imageUrl0
             /\ error' # Null
             /\ ~isLoading' ]_vars

\* C8: every accepted chain eventually settles; in the state in which it
\* settles isLoading is false, and the chain has cleared isLoading exactly
\* once when settled and never before.
C8_BusyReleased ==
  /\ [][ \A i \in 1..MaxChains :
           (\E o \in {"narrativeFailed", "imageFailed", "ok"} : SettlesWith(i, o))
             => ~isLoading' ]_vars
  /\ [](\A i \in 1..Len(chains) :
          /\ chains[i].pc = "done" => chains[i].cleared = 1
          /\ chains[i].pc # "done" => chains[i].cleared = 0)
  /\ \A i \in 1..MaxChains :
        (Len(chains) >= i) ~> (Len(chains) >= i /\ chains[i].pc = "done")

C8_Witness ==
  /\ \E i, j, k \in 1..Len(chains) :
        /\ chains[i].outcome = "narrativeFailed"
        /\ chains[j].outcome = "imageFailed"
        /\ chains[k].outcome = "ok"
  /\ InFlight = {}
  /\ ~isLoading

\* C9: the image service is called for a chain only once that chain's
\* narrative call has resolved, with the resolved segment as its prompt; a
\* chain whose narrative call failed never calls the image service.
C9_SequentialConditional ==
  \A i \in 1..Len(chains) :
    /\ chains[i].prompt # Null
         => /\ chains[i].segment # Null
            /\ chains[i].prompt = chains[i].segment
            /\ chains[i].pc \in {"image", "done"}
            /\ chains[i].outcome # "narrativeFailed"
    /\ chains[i].pc = "narrative" => chains[i].prompt = Null
    /\ chains[i].outcome = "narrativeFailed" => chains[i].prompt = Null

C9_Witness ==
  \E i, j \in 1..Len(chains) :
    /\ chains[i].narrative # <<>>
    /\ chains[i].pc = "image"
    /\ chains[i].prompt = Str(<<"x">>)
    /\ chains[j].outcome = "narrativeFailed"
    /\ chains[j].prompt = Null

\* C10: with the key absent or blank, after the mount effect apiKeyOk is false
\* and the configuration message is recorded, no chain is ever started and
\* narrative, imageUrl and isLoading keep their initial values; with the key
\* present the effect leaves the welcome screen with no error.
C10_BlockedForever ==
  /\ (mounted /\ (~apiKey.defined \/ Blank(apiKey.value)))
       => /\ ~apiKeyOk
          /\ error = Str(ConfigErrorMsg)
          /\ ConfigScreen /\ InputCount = 0
          /\ chains = <<>>
          /\ dreamState = [narrative |-> <<>>, imageUrl |-> Null]
          /\ ~isLoading
  /\ (mounted /\ chains = <<>> /\ apiKey.defined /\ ~Blank(apiKey.value))
       => /\ apiKeyOk
          /\ error = Null
          /\ WelcomeShown /\ ~DreamShown
          /\ ~isLoading

C10_Witness ==
  /\ mounted
  /\ apiKey = [defined |-> TRUE, value |-> <<" ">>]
  /\ ~apiKeyOk
  /\ error = Str(ConfigErrorMsg)

\* where chain i's commit put its segment in narrative: after what it captured
\* and the separator, or at the start when it captured the empty narrative
SegmentStart(i) ==
  IF chains[i].narrative = <<>> THEN 0 ELSE Len(chains[i].narrative) + 2
HoldsSegmentOf(i) ==
  /\ Len(dreamState.narrative) >= SegmentStart(i) + Len(chains[i].segment.v)
  /\ SubSeq(dreamState.narrative, SegmentStart(i) + 1,
            SegmentStart(i) + Len(chains[i].segment.v)) = chains[i].segment.v

\* C11: once a narrative call has resolved, showWelcome is false and the
\* welcome screen is not rendered, in that state and in every later one.
C11_ActiveForever ==
  (\E i \in 1..Len(chains) : chains[i].segment # Null)
    => (~showWelcome /\ ~WelcomeShown)

\* C12: while the image call of a chain is pending, narrative holds that
\* chain's segment where the chain committed it.
C12_CommitBeforeImage ==
  \A i \in 1..Len(chains) : chains[i].pc = "image" => HoldsSegmentOf(i)

\* C13: the step that accepts a submission sets isLoading and clears error,
\* and error stays null for as long as that chain has not failed.
C13_ErrorClearedOnAccept ==
  \A i \in 1..Len(chains) : chains[i].pc # "done" => error = Null

\* the messages a failed call of a stage can leave: a thrown Error's message,
\* or the stage's fallback phrase for any other thrown value
StageMessages(fallback) ==
  { t.message : t \in { u \in Thrown : u.isError } } \cup { fallback }

\* C14: in the state in which a chain settles, error is null if both its calls
\* resolved, and otherwise is a message of the stage that failed.
C14_ErrorIffFailed ==
  [][ \A i \in 1..MaxChains :
        /\ SettlesWith(i, "ok") => error' = Null
        /\ SettlesWith(i, "narrativeFailed")
             => (error' # Null /\ error'.v \in StageMessages(NarrativeFallbackMsg))
        /\ SettlesWith(i, "imageFailed")
             => (error' # Null /\ error'.v \in StageMessages(ImageFallbackMsg)) ]_vars

\* C15: whenever isLoading is true the spinner is rendered and the error banner
\* is not; whenever isLoading is false the spinner is not rendered.
C15_ViewWhileBusy ==
  /\ isLoading => (SpinnerShown /\ ~ErrorShown /\ ~ConfigScreen)
  /\ ~isLoading => ~SpinnerShown

C15_Witness ==
  /\ isLoading /\ SpinnerShown
  /\ DreamShown
  /\ \E i \in 1..Len(chains) : chains[i].outcome \in {"narrativeFailed", "imageFailed"}

\* C16: the configuration-error screen is rendered exactly when the key is
\* absent or blank; when rendered, error is the configuration message and no
\* input is rendered.
C16_ConfigScreenIffBlocked ==
  /\ ConfigScreen <=> (~apiKey.defined \/ Blank(apiKey.value))
  /\ ConfigScreen => (error = Str(ConfigErrorMsg) /\ InputCount = 0)

\* C17: whenever apiKeyOk holds and isLoading is false, exactly one input is
\* rendered: on the welcome screen while showWelcome is true, on the narrative
\* screen once it is false.
C17_OneScreenWhenIdle ==
  (apiKeyOk /\ ~isLoading)
    => /\ InputCount = 1
       /\ showWelcome => (WelcomeShown /\ ~DreamShown)
       /\ ~showWelcome => (DreamShown /\ ~WelcomeShown)

C19_BusyMirrorsInFlight ==
  isLoading <=> (InFlight # {})

\* C20: images are committed in the order of their segments: a chain whose
\* image was committed later committed its segment later too, so imageUrl is
\* never replaced by the image of an earlier segment.
C20_ImageTracksNewestSegment ==
  \A a, b \in 1..Len(chains) :
    (chains[a].outcome = "ok" /\ chains[b].outcome = "ok"
      /\ chains[a].imageSeq < chains[b].imageSeq)
      => chains[a].commitSeq < chains[b].commitSeq

====
